---- MODULE Spec2Model ----
(***************************************************************************)
(* The scanner of core/src/scanner.rs (scan_code and ScannerInfo) as a     *)
(* state machine.  A character is a one-character string; NUL, EACUTE and *)
(* BACKTICK stand for '\0', a two-byte character and the raw-string marker. *)
(* Text (lexemes, identifiers, the source) is a sequence of characters.    *)
(* Buffer indexes are 0-based as in the source: At(s, p) is read[p].       *)
(***************************************************************************)
EXTENDS Integers, Sequences, FiniteSets, TLC

NUL == "NUL"
EACUTE == "U+E9"
\* The raw-string marker (a string cannot hold the character itself).
BACKTICK == "BACKTICK"

\* The printable ASCII characters, in code order from ' ' (32) to '~' (126).
Printable ==
  <<
    " ", "!", "\"", "#", "$", "%", "&", "'",
    "(", ")", "*", "+", ",", "-", ".", "/",
    "0", "1", "2", "3", "4", "5", "6", "7",
    "8", "9", ":", ";", "<", "=", ">", "?",
    "@", "A", "B", "C", "D", "E", "F", "G",
    "H", "I", "J", "K", "L", "M", "N", "O",
    "P", "Q", "R", "S", "T", "U", "V", "W",
    "X", "Y", "Z", "[", "\\", "]", "^", "_",
    BACKTICK, "a", "b", "c", "d", "e", "f", "g",
    "h", "i", "j", "k", "l", "m", "n", "o",
    "p", "q", "r", "s", "t", "u", "v", "w",
    "x", "y", "z", "{", "|", "}", "~"
  >>

\* char as usize
Chars == {Printable[k] : k \in 1..Len(Printable)} \cup {NUL, "\t", "\n", "\r", EACUTE}

OrdTable ==
  [c \in Chars |->
     IF c = NUL THEN 0
     ELSE IF c = "\t" THEN 9
     ELSE IF c = "\n" THEN 10
     ELSE IF c = "\r" THEN 13
     ELSE IF c = EACUTE THEN 233
     ELSE 31 + (CHOOSE k \in 1..Len(Printable) : Printable[k] = c)]

Ord(c) == OrdTable[c]

\* char::is_ascii_digit, char::is_ascii_alphabetic, char::is_ascii_alphanumeric,
\* char::is_whitespace (restricted to the characters Ord knows)
IsAsciiDigit(c) == Ord(c) \in 48..57
IsAsciiAlphabetic(c) == Ord(c) \in (65..90) \cup (97..122)
IsAsciiAlphanumeric(c) == IsAsciiDigit(c) \/ IsAsciiAlphabetic(c)
IsWhitespace(c) == Ord(c) \in {9, 10, 11, 12, 13, 32}

\* The three closures scan_code hands to read_number as `check`.
Check(mode, c) ==
  CASE mode = "dec" -> IsAsciiDigit(c)
    [] mode = "hex" -> IsAsciiDigit(c) \/ Ord(c) \in (97..102) \cup (65..70)
    [] mode = "bin" -> c \in {"0", "1"}

\* The number of bytes a character takes in the source.
Width(c) == IF c = EACUTE THEN 2 ELSE 1

RECURSIVE CodeLen(_)
CodeLen(src) == IF src = <<>> THEN 0 ELSE Width(Head(src)) + CodeLen(Tail(src))

(***************************************************************************)
(* The symbol table.  An entry is Just(kind), Symbols(map, default) or     *)
(* Function(f); a map is a function from the characters it holds.          *)
(***************************************************************************)
\* A variant of the enumeration with SAFE_CALL and COMMA in each other's
\* place.
TokenTypesSwapped ==
  <<"ROUND_BRACKET_OPEN", "ROUND_BRACKET_CLOSED", "SQUARE_BRACKET_OPEN",
    "SQUARE_BRACKET_CLOSED", "CURLY_BRACKET_OPEN", "CURLY_BRACKET_CLOSED",
    "COMMA", "SAFE_CALL", "SAFE_SQUARE_BRACKET", "SEMICOLON",
    "QUESTION_MARK", "NOT", "AND", "OR", "PLUS", "MINUS", "STAR", "SLASH",
    "FLOOR_DIVISION", "PERCENTUAL", "CARET", "HASHTAG", "COALESCE", "DOT",
    "DOUBLE_COLON", "TWODOTS", "COLON", "THREEDOTS", "ARROW", "SAFE_DOT",
    "SAFE_DOUBLE_COLON", "BIT_AND", "BIT_OR", "BIT_XOR", "BIT_NOT",
    "LEFT_SHIFT", "RIGHT_SHIFT", "DEFINE", "DEFINE_AND", "DEFINE_OR",
    "INCREASE", "DECREASE", "MULTIPLY", "DIVIDE", "DEFINE_COALESCE",
    "EXPONENTIATE", "CONCATENATE", "MODULATE", "BIGGER", "BIGGER_EQUAL",
    "SMALLER", "SMALLER_EQUAL", "EQUAL", "NOT_EQUAL", "IDENTIFIER", "NUMBER",
    "STRING", "IF", "ELSEIF", "ELSE", "FOR", "OF", "IN", "WITH", "WHILE",
    "META", "GLOBAL", "UNTIL", "LOCAL", "FN", "METHOD", "RETURN", "TRUE",
    "FALSE", "NIL", "LOOP", "STATIC", "ENUM", "CONTINUE", "BREAK", "TRY",
    "CATCH", "MATCH", "DEFAULT", "STRUCT", "EXTERN", "CONSTRUCTOR", "EOF">>

\* enum TokenType, in the order of its declaration.
TokenTypes ==
  <<"ROUND_BRACKET_OPEN", "ROUND_BRACKET_CLOSED", "SQUARE_BRACKET_OPEN",
    "SQUARE_BRACKET_CLOSED", "CURLY_BRACKET_OPEN", "CURLY_BRACKET_CLOSED",
    "SAFE_CALL", "COMMA", "SAFE_SQUARE_BRACKET", "SEMICOLON",
    "QUESTION_MARK", "NOT", "AND", "OR", "PLUS", "MINUS", "STAR", "SLASH",
    "FLOOR_DIVISION", "PERCENTUAL", "CARET", "HASHTAG", "COALESCE", "DOT",
    "DOUBLE_COLON", "TWODOTS", "COLON", "THREEDOTS", "ARROW", "SAFE_DOT",
    "SAFE_DOUBLE_COLON", "BIT_AND", "BIT_OR", "BIT_XOR", "BIT_NOT",
    "LEFT_SHIFT", "RIGHT_SHIFT", "DEFINE", "DEFINE_AND", "DEFINE_OR",
    "INCREASE", "DECREASE", "MULTIPLY", "DIVIDE", "DEFINE_COALESCE",
    "EXPONENTIATE", "CONCATENATE", "MODULATE", "BIGGER", "BIGGER_EQUAL",
    "SMALLER", "SMALLER_EQUAL", "EQUAL", "NOT_EQUAL", "IDENTIFIER", "NUMBER",
    "STRING", "IF", "ELSEIF", "ELSE", "FOR", "OF", "IN", "WITH", "WHILE",
    "META", "GLOBAL", "UNTIL", "LOCAL", "FN", "METHOD", "RETURN", "TRUE",
    "FALSE", "NIL", "LOOP", "STATIC", "ENUM", "CONTINUE", "BREAK", "TRY",
    "CATCH", "MATCH", "DEFAULT", "STRUCT", "EXTERN", "CONSTRUCTOR", "EOF">>

\* kind as u8: the place of the kind in the declaration, counted from 0.
Tags ==
  [kind \in {TokenTypes[k] : k \in 1..Len(TokenTypes)} |->
     (CHOOSE k \in 1..Len(TokenTypes) : TokenTypes[k] = kind) - 1]

Tag(kind) == Tags[kind]

Just(kind) == [t |-> "Just", kind |-> kind]
Symbols(map, default) == [t |-> "Symbols", map |-> map, default |-> default]
Function(f) == [t |-> "Function", f |-> f]
None == [t |-> "None"]

SYMBOLS ==
  (   "(" :> Just("ROUND_BRACKET_OPEN")
   @@ ")" :> Just("ROUND_BRACKET_CLOSED")
   @@ "[" :> Just("SQUARE_BRACKET_OPEN")
   @@ "]" :> Just("SQUARE_BRACKET_CLOSED")
   @@ "{" :> Just("CURLY_BRACKET_OPEN")
   @@ "}" :> Just("CURLY_BRACKET_CLOSED")
   @@ "," :> Just("COMMA")
   @@ "." :> Symbols("." :> Symbols("." :> Just("THREEDOTS") @@ "=" :> Just("CONCATENATE"),
                                   "TWODOTS"),
                     "DOT")
   @@ ";" :> Just("SEMICOLON")
   @@ "+" :> Symbols("=" :> Just("INCREASE"), "PLUS")
   @@ "-" :> Symbols("=" :> Just("DECREASE"), "MINUS")
   @@ "*" :> Symbols("=" :> Just("MULTIPLY"), "STAR")
   @@ "^" :> Symbols("=" :> Just("EXPONENTIATE") @@ "^" :> Just("BIT_XOR"), "CARET")
   @@ "#" :> Just("HASHTAG")
   @@ "/" :> Symbols("=" :> Just("DIVIDE") @@ "_" :> Just("FLOOR_DIVISION"), "SLASH")
   @@ "%" :> Symbols("=" :> Just("MODULATE"), "PERCENTUAL")
   @@ "!" :> Symbols("=" :> Just("NOT_EQUAL"), "NOT")
   @@ "~" :> Just("BIT_NOT")
   @@ "=" :> Symbols("=" :> Just("EQUAL") @@ ">" :> Just("ARROW"), "DEFINE")
   @@ "<" :> Symbols("=" :> Just("SMALLER_EQUAL") @@ "<" :> Just("LEFT_SHIFT"), "SMALLER")
   @@ ">" :> Symbols("=" :> Just("BIGGER_EQUAL") @@ ">" :> Just("RIGHT_SHIFT"), "BIGGER")
   @@ "?" :> Symbols(   "." :> Just("SAFE_DOT")
                     @@ ":" :> Function("safe_double_colon")
                     @@ "[" :> Just("SAFE_SQUARE_BRACKET")
                     @@ "?" :> Symbols("=" :> Just("DEFINE_COALESCE"), "COALESCE")
                     @@ "(" :> Just("SAFE_CALL"),
                     "QUESTION_MARK")
   @@ "&" :> Symbols("&" :> Symbols("=" :> Just("DEFINE_AND"), "AND"), "BIT_AND")
   @@ ":" :> Symbols(":" :> Just("DOUBLE_COLON"), "COLON")
   @@ "|" :> Symbols("|" :> Symbols("=" :> Just("DEFINE_OR"), "OR"), "BIT_OR")
   @@ "\"" :> Function("read_string_double")
   @@ "'" :> Function("read_string_single")
   @@ BACKTICK :> Function("read_raw_string"))

\* symbols.get(c - '!'): nothing below '!' (checked_sub) and nothing from index 94 on.
SymbolsGet(symbols, c) ==
  IF Ord(c) < Ord("!") THEN None
  ELSE IF Ord(c) - Ord("!") >= 94 THEN None
  ELSE IF c \in DOMAIN symbols THEN symbols[c]
  ELSE None

\* The keyword table: Lua (active-equivalent), Just (native), Reserved
\* (disallowed-legacy) and Error (reserved-future).
KEYWORDS ==
  (<<"a", "n", "d">> :> [t |-> "Reserved"]
  @@ <<"n", "o", "t">> :> [t |-> "Reserved"]
  @@ <<"o", "r">> :> [t |-> "Reserved"]
  @@ <<"d", "o">> :> [t |-> "Reserved"]
  @@ <<"e", "n", "d">> :> [t |-> "Reserved"]
  @@ <<"f", "u", "n", "c", "t", "i", "o", "n">> :> [t |-> "Reserved"]
  @@ <<"r", "e", "p", "e", "a", "t">> :> [t |-> "Reserved"]
  @@ <<"t", "h", "e", "n">> :> [t |-> "Reserved"]
  @@ <<"i", "f">> :> [t |-> "Lua", kind |-> "IF"]
  @@ <<"e", "l", "s", "e", "i", "f">> :> [t |-> "Lua", kind |-> "ELSEIF"]
  @@ <<"e", "l", "s", "e">> :> [t |-> "Lua", kind |-> "ELSE"]
  @@ <<"f", "o", "r">> :> [t |-> "Lua", kind |-> "FOR"]
  @@ <<"i", "n">> :> [t |-> "Lua", kind |-> "IN"]
  @@ <<"w", "h", "i", "l", "e">> :> [t |-> "Lua", kind |-> "WHILE"]
  @@ <<"u", "n", "t", "i", "l">> :> [t |-> "Lua", kind |-> "UNTIL"]
  @@ <<"l", "o", "c", "a", "l">> :> [t |-> "Lua", kind |-> "LOCAL"]
  @@ <<"r", "e", "t", "u", "r", "n">> :> [t |-> "Lua", kind |-> "RETURN"]
  @@ <<"t", "r", "u", "e">> :> [t |-> "Lua", kind |-> "TRUE"]
  @@ <<"f", "a", "l", "s", "e">> :> [t |-> "Lua", kind |-> "FALSE"]
  @@ <<"n", "i", "l">> :> [t |-> "Lua", kind |-> "NIL"]
  @@ <<"b", "r", "e", "a", "k">> :> [t |-> "Lua", kind |-> "BREAK"]
  @@ <<"o", "f">> :> [t |-> "Just", kind |-> "OF"]
  @@ <<"w", "i", "t", "h">> :> [t |-> "Just", kind |-> "WITH"]
  @@ <<"m", "e", "t", "a">> :> [t |-> "Just", kind |-> "META"]
  @@ <<"g", "l", "o", "b", "a", "l">> :> [t |-> "Just", kind |-> "GLOBAL"]
  @@ <<"f", "n">> :> [t |-> "Just", kind |-> "FN"]
  @@ <<"m", "e", "t", "h", "o", "d">> :> [t |-> "Just", kind |-> "METHOD"]
  @@ <<"l", "o", "o", "p">> :> [t |-> "Just", kind |-> "LOOP"]
  @@ <<"s", "t", "a", "t", "i", "c">> :> [t |-> "Just", kind |-> "STATIC"]
  @@ <<"e", "n", "u", "m">> :> [t |-> "Just", kind |-> "ENUM"]
  @@ <<"c", "o", "n", "t", "i", "n", "u", "e">> :> [t |-> "Just", kind |-> "CONTINUE"]
  @@ <<"t", "r", "y">> :> [t |-> "Just", kind |-> "TRY"]
  @@ <<"c", "a", "t", "c", "h">> :> [t |-> "Just", kind |-> "CATCH"]
  @@ <<"m", "a", "t", "c", "h">> :> [t |-> "Just", kind |-> "MATCH"]
  @@ <<"d", "e", "f", "a", "u", "l", "t">> :> [t |-> "Just", kind |-> "DEFAULT"]
  @@ <<"c", "o", "n", "s", "t", "r", "u", "c", "t", "o", "r">> :> [t |-> "Error"]
  @@ <<"s", "t", "r", "u", "c", "t">> :> [t |-> "Error"]
  @@ <<"e", "x", "t", "e", "r", "n">> :> [t |-> "Error"])

KeywordsGet(ident) == IF ident \in DOMAIN KEYWORDS THEN KEYWORDS[ident] ELSE None

\* let v = ...; the rest of the body is F
With(v, F(_)) == F(v)

MemberAccess == {"DOT", "SAFE_DOT", "DOUBLE_COLON", "SAFE_DOUBLE_COLON"}

(***************************************************************************)
(* The character source (Code, CodeChars).  src is the text, pos the       *)
(* number of characters pulled, units the bytes it reports, report how it  *)
(* counts them: "last" (the bytes of the last pull) or "since" (the bytes  *)
(* pulled since they were last asked for).                                 *)
(***************************************************************************)
CodeChars(src, report) == [src |-> src, pos |-> 0, units |-> 0, report |-> report]

\* CodeChars::next_unwrapped: the next character, '\0' once the text is exhausted.
NextUnwrapped(code) ==
  IF code.pos < Len(code.src)
    THEN [ch   |-> code.src[code.pos + 1],
          code |-> [code EXCEPT !.pos = @ + 1,
                                !.units = IF code.report = "since"
                                            THEN @ + Width(code.src[code.pos + 1])
                                            ELSE Width(code.src[code.pos + 1])]]
    ELSE [ch   |-> NUL,
          code |-> [code EXCEPT !.units = IF code.report = "since" THEN @ ELSE 0]]

\* CodeChars::bytes_read
BytesRead(code) ==
  [n    |-> code.units,
   code |-> [code EXCEPT !.units = IF code.report = "since" THEN 0 ELSE @]]

(***************************************************************************)
(* ScannerInfo.  positions holds one (line, column) pair per character of  *)
(* read, so it is read's length that bounds an index into either; lines    *)
(* and columns themselves are not part of the model.  panicked records     *)
(* that an index was out of bounds: the scan stopped there.  diags is what *)
(* was forwarded to the error reporter.                                    *)
(***************************************************************************)
Panic(s) == [s EXCEPT !.panicked = TRUE]

InBuf(s, pos) == pos < Len(s.read)

At(s, pos) == s.read[pos + 1]

Peek(s, k) == At(s, s.current + k)

LookBack(s) == At(s, s.current - 1)

Ended(s) == s.current >= s.size

\* read[from..to]
Slice(s, from, to) == SubSeq(s.read, from + 1, to)

PushNext(s) ==
  With(NextUnwrapped(s.code), LAMBDA r :
    [s EXCEPT !.code = r.code, !.read = Append(@, r.ch)])

ScannerInfoNew(src, report) ==
  PushNext(PushNext(
    [start |-> 0, current |-> 0, size |-> CodeLen(src) + 2,
     code |-> CodeChars(src, report), read |-> <<>>, tokens |-> <<>>,
     last |-> "EOF", errors |-> 0, diags |-> <<>>, panicked |-> FALSE]))

\* ErrorMessaging::error: count the diagnostic and forward it with its span.
ErrorMessagingError(s, message, from, to) ==
  [s EXCEPT !.errors = (@ + 1) % 65536,
            !.diags = Append(@, [message |-> message, start |-> from, end |-> to])]

Error(s, message) ==
  IF s.panicked THEN s
  ELSE IF ~InBuf(s, s.start) THEN Panic(s)
  ELSE ErrorMessagingError(s, message, s.start, s.current)

\* A variant of reserved that records nothing.
ReservedSilent(s) == s

Reserved(s) == Error(s, "reserved keyword in Lua")

Advance(s) ==
  IF s.panicked THEN s
  ELSE With(PushNext(s), LAMBDA p :
         IF ~InBuf(p, p.current) THEN Panic(p)
         ELSE With(BytesRead(p.code), LAMBDA r :
                [p EXCEPT !.code = r.code,
                          !.size = IF r.n > 0 THEN @ - (r.n - 1) ELSE @,
                          !.current = @ + 1]))

\* compare: [s, ok]
Compare(s, expected) ==
  IF Ended(s) THEN [s |-> s, ok |-> FALSE]
  ELSE IF ~InBuf(s, s.current) THEN [s |-> Panic(s), ok |-> FALSE]
  ELSE IF At(s, s.current) # expected THEN [s |-> s, ok |-> FALSE]
  ELSE [s |-> Advance(s), ok |-> TRUE]

\* A variant of Token::new that keeps the length of the span where the end
\* index belongs.
TokenWithLength(kind, lexeme, from, to) ==
  [kind |-> kind, lexeme |-> lexeme, start |-> from, end |-> to - from]

Token(kind, lexeme, from, to) ==
  [kind |-> kind, lexeme |-> lexeme, start |-> from, end |-> to]

\* range() reads positions[start] and positions[current].
RangeOk(s) == InBuf(s, s.start) /\ InBuf(s, s.current)

\* A variant of add_literal_token that takes the lexeme from the source span,
\* as add_token does, and not from its argument.
AddSourceToken(s, kind, literal) ==
  IF s.panicked THEN s
  ELSE IF ~RangeOk(s) THEN Panic(s)
  ELSE [s EXCEPT !.tokens =
          Append(@, Token(kind, Slice(s, s.start, s.current), s.start, s.current))]

AddLiteralToken(s, kind, literal) ==
  IF s.panicked THEN s
  ELSE IF ~RangeOk(s) THEN Panic(s)
  ELSE [s EXCEPT !.tokens = Append(@, Token(kind, literal, s.start, s.current))]

\* A variant of add_token whose lexeme is everything buffered from start on,
\* the lookahead and a rolled back character included.
AddTokenBuffered(s, kind) ==
  IF s.panicked THEN s
  ELSE IF s.current > Len(s.read) \/ ~RangeOk(s) THEN Panic([s EXCEPT !.last = kind])
  ELSE [s EXCEPT !.last = kind,
                 !.tokens = Append(@, Token(kind, Slice(s, s.start, Len(s.read)),
                                            s.start, s.current))]

AddToken(s, kind) ==
  IF s.panicked THEN s
  ELSE IF s.current > Len(s.read) \/ ~RangeOk(s) THEN Panic([s EXCEPT !.last = kind])
  ELSE [s EXCEPT !.last = kind,
                 !.tokens = Append(@, Token(kind, Slice(s, s.start, s.current),
                                            s.start, s.current))]

(***************************************************************************)
(* read_number                                                             *)
(***************************************************************************)
\* while check(&self.peek(0)) { self.advance(); }
RECURSIVE ReadDigits(_, _)
ReadDigits(s, mode) ==
  IF s.panicked THEN s
  ELSE IF ~InBuf(s, s.current) THEN Panic(s)
  ELSE IF Check(mode, Peek(s, 0)) THEN ReadDigits(Advance(s), mode)
  ELSE s

\* The fractional part: a '.' followed by a character of the mode's class.
ReadFraction(s, mode) ==
  IF s.panicked THEN s
  ELSE IF ~InBuf(s, s.current) THEN Panic(s)
  ELSE IF Peek(s, 0) # "." THEN s
  ELSE IF ~InBuf(s, s.current + 1) THEN Panic(s)
  ELSE IF Check(mode, Peek(s, 1)) THEN ReadDigits(Advance(s), mode)
  ELSE s

\* if !c.is_ascii_digit() { ... }: the '-' of an exponent, or a diagnostic.
ReadExponentSign(s) ==
  IF IsAsciiDigit(Peek(s, 1)) THEN s
  ELSE IF Peek(s, 1) # "-" THEN Error(s, "Malformed number")
  ELSE IF ~InBuf(s, s.current + 2) THEN Panic(s)
  ELSE IF IsAsciiDigit(Peek(s, 2)) THEN Advance(s)
  ELSE Error(s, "Malformed number")

\* The exponent of a decimal number (simple = true).
ReadExponent(s) ==
  IF s.panicked THEN s
  ELSE IF ~InBuf(s, s.current) THEN Panic(s)
  ELSE IF Peek(s, 0) \notin {"e", "E"} THEN s
  ELSE IF ~InBuf(s, s.current + 1) THEN Panic(s)
  ELSE ReadDigits(Advance(ReadExponentSign(s)), "dec")

\* match &self.read[self.current..self.current + 2]
ReadSuffix(s) ==
  IF s.panicked THEN s
  ELSE IF s.current + 2 > Len(s.read) THEN Panic(s)
  ELSE IF Slice(s, s.current, s.current + 2) = <<"L", "L">> THEN Advance(Advance(s))
  ELSE IF Slice(s, s.current, s.current + 2) # <<"U", "L">> THEN s
  ELSE IF ~InBuf(s, s.current + 2) THEN Panic(s)
  ELSE IF Peek(s, 2) = "L" THEN Advance(Advance(Advance(s)))
  ELSE Error(s, "Malformed number")

ReadNumber(s, mode, simple) ==
  With(ReadFraction(ReadDigits(s, mode), mode), LAMBDA a :
    AddToken(ReadSuffix(IF simple THEN ReadExponent(a)
                        ELSE IF ~a.panicked /\ a.current = s.current
                          THEN Error(a, "Malformed number")
                        ELSE a),
             "NUMBER"))

(***************************************************************************)
(* read_string and read_raw_string                                         *)
(***************************************************************************)
\* while !self.ended() && self.peek(0) != strend { ... }
\* A variant of the loop of read_string_contents that gives the backslash no
\* meaning.
RECURSIVE StringLoopNoEscape(_, _)
StringLoopNoEscape(s, strend) ==
  IF s.panicked \/ Ended(s) THEN s
  ELSE IF ~InBuf(s, s.current) THEN Panic(s)
  ELSE IF Peek(s, 0) = strend THEN s
  ELSE StringLoopNoEscape(Advance(s), strend)

RECURSIVE StringLoop(_, _)
StringLoop(s, strend) ==
  IF s.panicked \/ Ended(s) THEN s
  ELSE IF ~InBuf(s, s.current) THEN Panic(s)
  ELSE IF Peek(s, 0) = strend THEN s
  ELSE With(Advance(s), LAMBDA a :
         IF a.panicked THEN a
         ELSE IF LookBack(a) = "\\" THEN StringLoop(Advance(a), strend)
         ELSE StringLoop(a, strend))

\* A variant of read_string_contents that does not look for the end of the
\* input: it reports a closed literal wherever the loop stopped.
ReadStringContentsUnchecked(s, strend) ==
  With(StringLoop(s, strend), LAMBDA a : [s |-> a, ok |-> ~a.panicked])

\* read_string_contents: [s, ok]
ReadStringContents(s, strend) ==
  With(StringLoop(s, strend), LAMBDA a :
    IF a.panicked THEN [s |-> a, ok |-> FALSE]
    ELSE IF Ended(a) THEN [s |-> Error(a, "Unterminated string"), ok |-> FALSE]
    ELSE [s |-> a, ok |-> TRUE])

\* The text without its '\r', '\n' and '\t'.
RECURSIVE Strip(_)
Strip(text) ==
  IF text = <<>> THEN <<>>
  ELSE IF Head(text) \in {"\r", "\n", "\t"} THEN Strip(Tail(text))
  ELSE <<Head(text)>> \o Strip(Tail(text))

ReadString(s, strend) ==
  With(ReadStringContents(s, strend), LAMBDA r :
    IF ~r.ok THEN r.s
    ELSE With(Advance(r.s), LAMBDA a :
           IF a.panicked THEN a
           ELSE AddLiteralToken(a, "STRING", Strip(Slice(a, a.start, a.current)))))

\* str::starts_with, str::contains, str::ends_with, str::replace("\\`", "`")
IsPrefix(pat, text) == Len(pat) <= Len(text) /\ SubSeq(text, 1, Len(pat)) = pat

Contains(text, pat) ==
  \E k \in 0..(Len(text) - Len(pat)) : SubSeq(text, k + 1, k + Len(pat)) = pat

EndsWith(text, c) == text # <<>> /\ text[Len(text)] = c

RECURSIVE ReplaceEscaped(_)
ReplaceEscaped(text) ==
  IF text = <<>> THEN <<>>
  ELSE IF IsPrefix(<<"\\", BACKTICK>>, text)
    THEN <<BACKTICK>> \o ReplaceEscaped(SubSeq(text, 3, Len(text)))
  ELSE <<Head(text)>> \o ReplaceEscaped(Tail(text))

\* n '=' characters
Brackets(n) == [k \in 1..n |-> "="]

\* A variant of the level loop that does not look at the end of the literal.
RECURSIVE BracketLevelNoMust(_, _, _)
BracketLevelNoMust(literal, n, must) ==
  IF Contains(literal, <<"]">> \o Brackets(n) \o <<"]">>)
    THEN BracketLevelNoMust(literal, n + 1, FALSE)
  ELSE n

\* A variant of the level loop that never settles on level 0.
RECURSIVE BracketLevelForced(_, _, _)
BracketLevelForced(literal, n, must) ==
  IF n = 0 \/ Contains(literal, <<"]">> \o Brackets(n) \o <<"]">>)
    THEN BracketLevelForced(literal, n + 1, FALSE)
  ELSE n

\* while must || literal.contains("]" + brackets + "]") { brackets += "="; must = false; }
RECURSIVE BracketLevel(_, _, _)
BracketLevel(literal, n, must) ==
  IF must \/ Contains(literal, <<"]">> \o Brackets(n) \o <<"]">>)
    THEN BracketLevel(literal, n + 1, FALSE)
  ELSE n

RawLiteral(literal) ==
  With(BracketLevel(literal, 0, EndsWith(literal, "]")), LAMBDA n :
    <<"[">> \o Brackets(n) \o <<"[">> \o ReplaceEscaped(literal)
      \o <<"]">> \o Brackets(n) \o <<"]">>)

ReadRawString(s) ==
  With(ReadStringContents(s, BACKTICK), LAMBDA r :
    IF ~r.ok THEN r.s
    ELSE With(Advance(r.s), LAMBDA a :
           IF a.panicked THEN a
           ELSE AddLiteralToken(a, "STRING",
                                RawLiteral(Slice(a, a.start + 1, a.current - 1)))))

(***************************************************************************)
(* read_identifier and scan_char                                           *)
(***************************************************************************)
RECURSIVE IdentLoop(_, _)
IdentLoop(s, ident) ==
  IF s.panicked THEN [s |-> s, ident |-> ident]
  ELSE IF ~InBuf(s, s.current) THEN [s |-> Panic(s), ident |-> ident]
  ELSE IF ~(IsAsciiAlphanumeric(Peek(s, 0)) \/ Peek(s, 0) = "_")
    THEN [s |-> s, ident |-> ident]
  ELSE IdentLoop(Advance(s), Append(ident, Peek(s, 0)))

\* read_identifier: [s, ident]
ReadIdentifier(s) == IdentLoop(s, <<At(s, s.start)>>)

\* The closure of the '?' table's ':' entry.
SafeDoubleColon(s) ==
  With(Compare(s, ":"), LAMBDA r :
    IF r.ok THEN AddToken(r.s, "SAFE_DOUBLE_COLON")
    ELSE IF r.s.panicked THEN r.s
    ELSE [s EXCEPT !.current = @ - 1])

\* SymbolType::Function(f) => f(self)
CallFunction(s, f) ==
  CASE f = "safe_double_colon" -> SafeDoubleColon(s)
    [] f = "read_string_double" -> ReadString(s, "\"")
    [] f = "read_string_single" -> ReadString(s, "'")
    [] f = "read_raw_string" -> ReadRawString(s)

\* scan_char: [s, ok]
RECURSIVE ScanChar(_, _, _)
ScanChar(s, symbols, c) ==
  With(SymbolsGet(symbols, c), LAMBDA token :
    IF token.t = "None" THEN [s |-> s, ok |-> FALSE]
    ELSE IF token.t = "Just" THEN [s |-> AddToken(s, token.kind), ok |-> TRUE]
    ELSE IF token.t = "Function" THEN [s |-> CallFunction(s, token.f), ok |-> TRUE]
    ELSE With(Advance(s), LAMBDA a :
           IF a.panicked THEN [s |-> a, ok |-> TRUE]
           ELSE With(ScanChar(a, token.map, At(a, s.current)), LAMBDA r :
                  IF r.ok THEN [s |-> r.s, ok |-> TRUE]
                  ELSE [s  |-> AddToken([a EXCEPT !.current = @ - 1], token.default),
                        ok |-> TRUE])))

(***************************************************************************)
(* scan_code                                                               *)
(***************************************************************************)
\* A variant of the head of an iteration that consumes no character.
BeginTokenNoAdvance(s) == [s EXCEPT !.start = s.current]

\* i.start = i.current; let c = i.advance();
BeginToken(s) == Advance([s EXCEPT !.start = s.current])

\* The digit branch of the driver loop.
ScanNumber(s, c) ==
  IF s.panicked THEN s
  ELSE IF c # "0" THEN ReadNumber(s, "dec", TRUE)
  ELSE IF ~InBuf(s, s.current) THEN Panic(s)
  ELSE IF Peek(s, 0) \in {"x", "X"}
    THEN ReadNumber([s EXCEPT !.current = @ + 1], "hex", FALSE)
  ELSE IF Peek(s, 0) \in {"b", "B"}
    THEN ReadNumber([s EXCEPT !.current = @ + 1], "bin", FALSE)
  ELSE ReadNumber(s, "dec", TRUE)

\* A variant of the keyword match without the arm for the member-access context.
KeywordKindNoOverride(s, ident) ==
  With(KeywordsGet(ident), LAMBDA keyword :
    IF keyword.t = "None" THEN [s |-> s, kind |-> "IDENTIFIER"]
    ELSE IF keyword.t = "Lua" THEN [s |-> s, kind |-> keyword.kind]
    ELSE IF keyword.t = "Reserved" THEN [s |-> Reserved(s), kind |-> "IDENTIFIER"]
    ELSE IF keyword.t = "Just" THEN [s |-> s, kind |-> keyword.kind]
    ELSE [s |-> Error(s, "reserved for Clue 4.0"), kind |-> "IDENTIFIER"])

\* A variant of the keyword match whose context arm knows DOT alone.
KeywordKindDotOnly(s, ident) ==
  With(KeywordsGet(ident), LAMBDA keyword :
    IF keyword.t = "None" THEN [s |-> s, kind |-> "IDENTIFIER"]
    ELSE IF keyword.t = "Lua" THEN [s |-> s, kind |-> keyword.kind]
    ELSE IF keyword.t = "Reserved" THEN [s |-> Reserved(s), kind |-> "IDENTIFIER"]
    ELSE IF s.last = "DOT" THEN [s |-> s, kind |-> "IDENTIFIER"]
    ELSE IF keyword.t = "Just" THEN [s |-> s, kind |-> keyword.kind]
    ELSE [s |-> Error(s, "reserved for Clue 4.0"), kind |-> "IDENTIFIER"])

\* The match on KEYWORDS.get(ident): [s, kind]
KeywordKind(s, ident) ==
  With(KeywordsGet(ident), LAMBDA keyword :
    IF keyword.t = "None" THEN [s |-> s, kind |-> "IDENTIFIER"]
    ELSE IF keyword.t = "Lua" THEN [s |-> s, kind |-> keyword.kind]
    ELSE IF keyword.t = "Reserved" THEN [s |-> Reserved(s), kind |-> "IDENTIFIER"]
    ELSE IF s.last \in MemberAccess THEN [s |-> s, kind |-> "IDENTIFIER"]
    ELSE IF keyword.t = "Just" THEN [s |-> s, kind |-> keyword.kind]
    ELSE [s |-> Error(s, "reserved for Clue 4.0"), kind |-> "IDENTIFIER"])

\* The identifier branch of the driver loop.
ScanIdentifier(s) ==
  IF s.panicked THEN s
  ELSE With(ReadIdentifier(s), LAMBDA r :
         IF r.s.panicked THEN r.s
         ELSE With(KeywordKind(r.s, r.ident), LAMBDA k : AddToken(k.s, k.kind)))

\* while !i.ended() && i.peek(0) != '\0'
LoopCondition(s) == ~Ended(s) /\ Peek(s, 0) # NUL

\* The lexeme of the EOF token.
EndMarker == <<"<", "e", "n", "d", ">">>

\* errors::finish_step
FinishStep(errors, tokens) ==
  IF errors = 0 THEN [state |-> "Ok", tokens |-> tokens] ELSE [state |-> "Err"]

\* A variant of the final step that passes no error count on.
DispositionOfTokens(s) == FinishStep(0, s.tokens)

\* finish_step(filename, i.errors, i.tokens)
Disposition(s) == FinishStep(s.errors, s.tokens)

(***************************************************************************)
(* The sources scanned: every concatenation of at most MaxFragments        *)
(* fragments, a fragment being a character or a short piece of text.       *)
(***************************************************************************)
MaxFragments == 3

Fragments ==
  { <<"?">>, <<".">>, <<":">>, <<"(">>, <<"=">>,
    <<"0">>, <<"e">>,
    <<"1", "e", "-", "1">>, <<"0", "x", "1", "A">>, <<"0", "b", "1">>,
    <<"a">>, <<"e", "n", "d">>, <<"i", "f">>, <<"m", "a", "t", "c", "h">>,
    <<"s", "t", "r", "u", "c", "t">>,
    <<"\"">>, <<"'">>, <<BACKTICK>>, <<"\\">>,
    <<" ">>, <<EACUTE>> }

RECURSIVE Concat(_)
Concat(fs) == IF fs = <<>> THEN <<>> ELSE Head(fs) \o Concat(Tail(fs))

Sources == {Concat(fs) : fs \in UNION {[1..n -> Fragments] : n \in 0..MaxFragments}}

\* How the character source counts the bytes it reports.
Reports == {"last", "since"}

VARIABLES i, pc, result

vars == <<i, pc, result>>

Init ==
  /\ \E src \in Sources, report \in Reports : i = ScannerInfoNew(src, report)
  /\ pc = "scan"
  /\ result = [state |-> "none"]

\* The character an iteration starts on, and what the table holds for it.
FirstChar == At(i, i.current)

FirstSymbol == SymbolsGet(SYMBOLS, FirstChar).t

\* An iteration that scan_char takes: an operator, or a string.
ScanSymbol ==
  /\ pc = "scan" /\ LoopCondition(i)
  /\ FirstSymbol # "None"
  /\ i' = ScanChar(BeginToken(i), SYMBOLS, FirstChar).s
  /\ pc' = IF i'.panicked THEN "panic" ELSE "scan"
  /\ UNCHANGED result

SkipWhitespace ==
  /\ pc = "scan" /\ LoopCondition(i)
  /\ FirstSymbol = "None"
  /\ IsWhitespace(FirstChar)
  /\ i' = BeginToken(i)
  /\ pc' = IF i'.panicked THEN "panic" ELSE "scan"
  /\ UNCHANGED result

ScanDigit ==
  /\ pc = "scan" /\ LoopCondition(i)
  /\ FirstSymbol = "None"
  /\ ~IsWhitespace(FirstChar) /\ IsAsciiDigit(FirstChar)
  /\ i' = ScanNumber(BeginToken(i), FirstChar)
  /\ pc' = IF i'.panicked THEN "panic" ELSE "scan"
  /\ UNCHANGED result

ScanWord ==
  /\ pc = "scan" /\ LoopCondition(i)
  /\ FirstSymbol = "None"
  /\ ~IsWhitespace(FirstChar) /\ ~IsAsciiDigit(FirstChar)
  /\ (IsAsciiAlphabetic(FirstChar) \/ FirstChar = "_")
  /\ i' = ScanIdentifier(BeginToken(i))
  /\ pc' = IF i'.panicked THEN "panic" ELSE "scan"
  /\ UNCHANGED result

UnexpectedCharacter ==
  /\ pc = "scan" /\ LoopCondition(i)
  /\ FirstSymbol = "None"
  /\ ~IsWhitespace(FirstChar) /\ ~IsAsciiDigit(FirstChar)
  /\ ~(IsAsciiAlphabetic(FirstChar) \/ FirstChar = "_")
  /\ i' = Error(BeginToken(i), "Unexpected character")
  /\ pc' = IF i'.panicked THEN "panic" ELSE "scan"
  /\ UNCHANGED result

\* The end of scan_code: the EOF token and finish_step.
Finish ==
  /\ pc = "scan"
  /\ ~LoopCondition(i)
  /\ i' = AddLiteralToken(i, "EOF", EndMarker)
  /\ pc' = IF i'.panicked THEN "panic" ELSE "done"
  /\ result' = IF i'.panicked THEN result ELSE Disposition(i')

Next ==
  \/ ScanSymbol
  \/ SkipWhitespace
  \/ ScanDigit
  \/ ScanWord
  \/ UnexpectedCharacter
  \/ Finish

Spec == Init /\ [][Next]_vars

(***************************************************************************)
(* Numerals: up to MaxNumberFragments pieces out of the prefixes, digits,  *)
(* the '.', a letter that is a hexadecimal digit and the exponent mark, an *)
(* operator that is emitted after a rollback, a blank and a character the  *)
(* scanner rejects.                                                        *)
(***************************************************************************)
MaxNumberFragments == 4

NumberFragments ==
  { <<"=">>, <<"0", "x">>, <<"0", "b", "1">>, <<"1">>, <<".">>, <<"e">>,
    <<" ">>, <<"@">> }

NumberSources ==
  {Concat(fs) : fs \in UNION {[1..n -> NumberFragments] : n \in 0..MaxNumberFragments}}

InitNumbers ==
  /\ \E src \in NumberSources, report \in Reports : i = ScannerInfoNew(src, report)
  /\ pc = "scan"
  /\ result = [state |-> "none"]

SpecNumbers == InitNumbers /\ [][Next]_vars

(***************************************************************************)
(* Integer suffixes: up to MaxSuffixFragments pieces out of a digit, the   *)
(* hexadecimal prefix, the letters of the suffixes, an operator that is    *)
(* emitted after a rollback, a blank and a character the scanner rejects.  *)
(***************************************************************************)
MaxSuffixFragments == 4

SuffixFragments ==
  { <<"=">>, <<"1">>, <<"0", "x">>, <<"L">>, <<"U", "L">>, <<" ">>, <<"@">> }

SuffixSources ==
  {Concat(fs) : fs \in UNION {[1..n -> SuffixFragments] : n \in 0..MaxSuffixFragments}}

InitSuffix ==
  /\ \E src \in SuffixSources, report \in Reports : i = ScannerInfoNew(src, report)
  /\ pc = "scan"
  /\ result = [state |-> "none"]

SpecSuffix == InitSuffix /\ [][Next]_vars

(***************************************************************************)
(* scan_code as a function of the source: the loop run to its end.         *)
(***************************************************************************)
\* One iteration of the driver loop on the character c it consumes.
Dispatch(b, c) ==
  IF SymbolsGet(SYMBOLS, c).t # "None" THEN ScanChar(b, SYMBOLS, c).s
  ELSE IF IsWhitespace(c) THEN b
  ELSE IF IsAsciiDigit(c) THEN ScanNumber(b, c)
  ELSE IF IsAsciiAlphabetic(c) \/ c = "_" THEN ScanIdentifier(b)
  ELSE Error(b, "Unexpected character")

Iterate(s) == Dispatch(BeginToken(s), At(s, s.current))

RECURSIVE RunLoop(_)
RunLoop(s) ==
  IF s.panicked \/ ~LoopCondition(s) THEN s ELSE RunLoop(Iterate(s))

\* The scanner after the loop and the EOF token; panicked when the scan stopped
\* on a bad index.
ScanCode(src, report) ==
  AddLiteralToken(RunLoop(ScannerInfoNew(src, report)), "EOF", EndMarker)

(***************************************************************************)
(* Quoted literals: a delimiter, a content of up to MaxQuoted characters   *)
(* that are the delimiter, the backslash, a letter and the three stripped  *)
(* characters, and what follows the content.                               *)
(***************************************************************************)
MaxQuoted == 4

QuotedChars == {"\"", "\\", "a", "\n", "\t", "\r"}

Texts(alphabet, n) == UNION {[1..k -> alphabet] : k \in 0..n}

\* What follows the content: nothing, the delimiter, or the delimiter and one
\* character of every branch of the driver loop.
Tails(strend) == {<<>>, <<strend>>, <<strend, "a", " ", "1", "@">>}

QuotedSources ==
  { <<strend>> \o content \o tail :
      strend \in {"\"", "'"}, content \in Texts(QuotedChars, MaxQuoted),
      tail \in Tails("\"") \cup Tails("'") }

InitQuoted ==
  /\ \E src \in QuotedSources, report \in Reports : i = ScannerInfoNew(src, report)
  /\ pc = "scan"
  /\ result = [state |-> "none"]

SpecQuoted == InitQuoted /\ [][Next]_vars

(***************************************************************************)
(* Raw strings: a backtick, a content of up to MaxRaw characters that are  *)
(* the backtick, the backslash, the characters of the long-bracket         *)
(* delimiters and a letter, and what follows the content.                  *)
(***************************************************************************)
MaxRaw == 5

RawChars == {BACKTICK, "\\", "a", "]", "="}

\* The content of the documented example.
ExampleContent == <<"a", "]", "=", "]", "b">>

RawSources ==
  { <<BACKTICK>> \o content \o tail :
      content \in Texts(RawChars, MaxRaw) \cup {ExampleContent},
      tail \in Tails(BACKTICK) }

InitRaw ==
  /\ \E src \in RawSources, report \in Reports : i = ScannerInfoNew(src, report)
  /\ pc = "scan"
  /\ result = [state |-> "none"]

SpecRaw == InitRaw /\ [][Next]_vars

(***************************************************************************)
(* What the properties below speak of.  start is the cursor the last       *)
(* iteration began on, so the tokens and diagnostics whose span begins at  *)
(* start are those of the last iteration.                                  *)
(***************************************************************************)
Src == i.code.src

\* An iteration has begun: its first character was consumed.
Started == Len(i.read) > 2

\* The character the last iteration began on, and the source from there on.
StartChar == At(i, i.start)

Rest == SubSeq(Src, i.start + 1, Len(Src))

Drop(text, n) == SubSeq(text, n + 1, Len(text))

\* The tokens (EOF aside) and the diagnostics of the last iteration.
Emitted == SelectSeq(i.tokens, LAMBDA t : t.start = i.start /\ t.kind # "EOF")

DiagsHere == SelectSeq(i.diags, LAMBDA d : d.start = i.start)

DiagsAt(from) == SelectSeq(i.diags, LAMBDA d : d.start = from)

\* C1: when the driver loop has finished, the token sequence holds exactly one
\* EOF token, that token is the last one, and its lexeme is the marker "<end>".
C1_ExactlyOneEofLast ==
  pc = "done" =>
    /\ Len(i.tokens) >= 1
    /\ i.tokens[Len(i.tokens)].kind = "EOF"
    /\ i.tokens[Len(i.tokens)].lexeme = EndMarker
    /\ \A k \in 1..(Len(i.tokens) - 1) : i.tokens[k].kind # "EOF"

\* A finished scan that recorded diagnostics and built tokens before the EOF.
C1_Witness == pc = "done" /\ i.errors > 0 /\ Len(i.tokens) > 2

\* C2: scan_code returns the token sequence iff no diagnostic was recorded by
\* the end of the input; otherwise it fails and returns no token sequence,
\* although the sequence was built.
C2_OkIffNoDiagnostics ==
  pc = "done" =>
    /\ result.state \in {"Ok", "Err"}
    /\ result.state = "Ok" <=> Len(i.diags) = 0
    /\ result.state = "Ok" => result.tokens = i.tokens
    /\ result.state = "Err" => DOMAIN result = {"state"} /\ Len(i.tokens) >= 1

\* A scan that failed with several tokens built.
C2_Witness == pc = "done" /\ result.state = "Err" /\ Len(i.tokens) > 2

\* C3: no scan stops before the step that appends EOF, and every iteration of
\* the driver loop leaves the cursor past the place it began on.
C3_ScanReachesEof ==
  /\ pc # "panic"
  /\ Started /\ pc = "scan" => i.current > i.start

\* The operator lexemes of a table, each with its kind.  The ':' entry of the
\* '?' table stands for the lexeme "?::".
RECURSIVE Lexemes(_, _)
Lexemes(map, prefix) ==
  UNION { IF map[c].t = "Just"
            THEN {[lexeme |-> Append(prefix, c), kind |-> map[c].kind]}
          ELSE IF map[c].t = "Symbols"
            THEN {[lexeme |-> Append(prefix, c), kind |-> map[c].default]}
                   \cup Lexemes(map[c].map, Append(prefix, c))
          ELSE IF map[c].f = "safe_double_colon"
            THEN {[lexeme |-> prefix \o <<c, ":">>, kind |-> "SAFE_DOUBLE_COLON"]}
          ELSE {} : c \in DOMAIN map }

Operators == Lexemes(SYMBOLS, <<>>)

\* The longest operator lexeme that text begins with.
LongestOperator(text) ==
  CHOOSE op \in Operators :
    /\ IsPrefix(op.lexeme, text)
    /\ \A other \in Operators :
         IsPrefix(other.lexeme, text) => Len(other.lexeme) <= Len(op.lexeme)

\* An iteration began on an operator character: an entry of the symbol table
\* that is not one of the string scanners.
OnOperator ==
  /\ Started /\ pc \in {"scan", "panic"}
  /\ SymbolsGet(SYMBOLS, StartChar).t \in {"Just", "Symbols"}

\* C4: an iteration that begins on an operator character emits exactly one
\* token, that of the longest operator lexeme the remaining input begins with,
\* and leaves the cursor right after that lexeme.
C4_LongestOperatorEmitted ==
  OnOperator =>
    /\ ~i.panicked
    /\ Emitted = <<Token(LongestOperator(Rest).kind, LongestOperator(Rest).lexeme,
                         i.start, i.start + Len(LongestOperator(Rest).lexeme))>>
    /\ i.current = i.start + Len(LongestOperator(Rest).lexeme)

\* The length of the longest prefix of text made of digits of the mode's class.
RECURSIVE DigitRun(_, _)
DigitRun(text, mode) ==
  IF text # <<>> /\ Check(mode, Head(text)) THEN 1 + DigitRun(Tail(text), mode) ELSE 0

\* The length of ".digits" at the head of text, 0 when text does not begin so.
FractionSpan(text) ==
  IF Len(text) >= 2 /\ text[1] = "." /\ DigitRun(Tail(text), "dec") > 0
    THEN 1 + DigitRun(Tail(text), "dec")
  ELSE 0

\* The length of "e digits" or "e - digits" at the head of text, 0 when none.
ExponentSpan(text) ==
  IF text = <<>> \/ text[1] \notin {"e", "E"} THEN 0
  ELSE IF DigitRun(Tail(text), "dec") > 0 THEN 1 + DigitRun(Tail(text), "dec")
  ELSE IF Len(text) >= 3 /\ text[2] = "-" /\ DigitRun(Drop(text, 2), "dec") > 0
    THEN 2 + DigitRun(Drop(text, 2), "dec")
  ELSE 0

\* The length of the maximal decimal numeral text begins with.
DecimalSpan(text) ==
  DigitRun(text, "dec")
    + FractionSpan(Drop(text, DigitRun(text, "dec")))
    + ExponentSpan(Drop(text, DigitRun(text, "dec")
                                + FractionSpan(Drop(text, DigitRun(text, "dec")))))

\* text begins with the prefix of a hexadecimal or binary literal.
NumberMode(text) ==
  IF Len(text) >= 2 /\ text[1] = "0" /\ text[2] \in {"x", "X"} THEN "hex"
  ELSE IF Len(text) >= 2 /\ text[1] = "0" /\ text[2] \in {"b", "B"} THEN "bin"
  ELSE "dec"

\* The character of text after its first n, NUL past its end.
Follower(text, n) == IF n < Len(text) THEN text[n + 1] ELSE NUL

\* An iteration began on a decimal numeral that nothing continues: no exponent
\* mark and no integer suffix follows it.
OnDecimal ==
  /\ Started /\ pc \in {"scan", "panic"}
  /\ IsAsciiDigit(StartChar)
  /\ NumberMode(Rest) = "dec"
  /\ Follower(Rest, DecimalSpan(Rest)) \notin {"e", "E", "L", "U"}

\* C5: a decimal numeral, wherever it stands in the source, gives exactly one
\* NUMBER token whose lexeme is the maximal matched span, and no diagnostic.
C5_DecimalNumber ==
  OnDecimal =>
    /\ ~i.panicked
    /\ Emitted = <<Token("NUMBER", SubSeq(Rest, 1, DecimalSpan(Rest)),
                         i.start, i.start + DecimalSpan(Rest))>>
    /\ DiagsHere = <<>>

\* The length of the hexadecimal or binary literal text begins with: the prefix
\* and the digits of its class.
PrefixedSpan(text) == 2 + DigitRun(Drop(text, 2), NumberMode(text))

\* An iteration began on 0x or 0b with at least one digit of the class, and
\* neither a '.' with such a digit nor an integer suffix follows the digits.
OnPrefixed ==
  /\ Started /\ pc \in {"scan", "panic"}
  /\ NumberMode(Rest) \in {"hex", "bin"}
  /\ PrefixedSpan(Rest) > 2
  /\ Follower(Rest, PrefixedSpan(Rest)) \notin {"L", "U"}
  /\ ~(/\ Follower(Rest, PrefixedSpan(Rest)) = "."
       /\ Check(NumberMode(Rest), Follower(Rest, PrefixedSpan(Rest) + 1)))

\* C6: a hexadecimal or binary literal, wherever it stands in the source (as
\* the first token too), gives exactly one NUMBER token whose lexeme is the
\* whole literal with its prefix, and no diagnostic.
C6_PrefixedNumber ==
  OnPrefixed =>
    /\ ~i.panicked
    /\ Emitted = <<Token("NUMBER", SubSeq(Rest, 1, PrefixedSpan(Rest)),
                         i.start, i.start + PrefixedSpan(Rest))>>
    /\ DiagsHere = <<>>

\* Token k holds keyword text of one of the classes and comes right after a
\* member-access operator.
AfterMemberAccess(k, classes) ==
  /\ k \in 2..Len(i.tokens)
  /\ i.tokens[k - 1].kind \in MemberAccess
  /\ i.tokens[k].lexeme \in DOMAIN KEYWORDS
  /\ KEYWORDS[i.tokens[k].lexeme].t \in classes

\* Token k holds keyword text of one of the classes and does not come right
\* after a member-access operator.
NotAfterMemberAccess(k, classes) ==
  /\ k \in 1..Len(i.tokens)
  /\ k > 1 => i.tokens[k - 1].kind \notin MemberAccess
  /\ i.tokens[k].lexeme \in DOMAIN KEYWORDS
  /\ KEYWORDS[i.tokens[k].lexeme].t \in classes

C9_StandaloneLegacyKeyword ==
  \A k \in 1..Len(i.tokens) :
    NotAfterMemberAccess(k, {"Reserved"}) =>
      /\ i.tokens[k].kind = "IDENTIFIER"
      /\ Len(DiagsAt(i.tokens[k].start)) = 1
      /\ DiagsAt(i.tokens[k].start)[1].end = i.tokens[k].end
      /\ pc = "done" => result.state = "Err"

\* A finished scan with a disallowed-legacy keyword followed by another token.
C9_Witness ==
  /\ pc = "done"
  /\ \E k \in 1..Len(i.tokens) :
       NotAfterMemberAccess(k, {"Reserved"}) /\ k + 1 < Len(i.tokens)

\* text holds its delimiter unescaped: a backslash escapes the character
\* after it.
RECURSIVE Closes(_, _)
Closes(text, strend) ==
  IF text = <<>> THEN FALSE
  ELSE IF Head(text) = strend THEN TRUE
  ELSE IF Head(text) = "\\" THEN Closes(Drop(text, 2), strend)
  ELSE Closes(Tail(text), strend)

\* The last iteration began on a quote or a backtick that nothing closes.
OnUnterminated ==
  /\ Started
  /\ StartChar \in {"\"", "'", BACKTICK}
  /\ ~Closes(Tail(Rest), StartChar)

\* C10: a literal that no unescaped delimiter closes records exactly one
\* "Unterminated string" diagnostic and appends no STRING token, and the scan
\* goes on to append the EOF token.
C10_UnterminatedString ==
  OnUnterminated =>
    /\ pc # "panic"
    /\ Emitted = <<>>
    /\ Len(DiagsHere) = 1
    /\ DiagsHere[1].message = "Unterminated string"
    /\ pc = "scan" => ~LoopCondition(i)
    /\ pc = "done" => i.tokens[Len(i.tokens)].kind = "EOF"

\* A finished scan whose last literal, a raw string, was never closed.
C10_Witness ==
  /\ OnUnterminated /\ pc = "done"
  /\ StartChar = BACKTICK
  /\ Len(i.tokens) > 1

\* The place in text of its first delimiter that no backslash escapes, 0 when
\* there is none: a backslash escapes the one character after it.
RECURSIVE CloseAt(_, _)
CloseAt(text, strend) ==
  IF text = <<>> THEN 0
  ELSE IF Head(text) = strend THEN 1
  ELSE IF Head(text) = "\\"
    THEN IF CloseAt(Drop(text, 2), strend) = 0 THEN 0
         ELSE 2 + CloseAt(Drop(text, 2), strend)
  ELSE IF CloseAt(Tail(text), strend) = 0 THEN 0
  ELSE 1 + CloseAt(Tail(text), strend)

\* The characters of text in order, without '\r', '\n' and '\t'.
Kept(text) == SelectSeq(text, LAMBDA c : c \notin {"\r", "\n", "\t"})

\* The last iteration began on a quote or an apostrophe that a later one closes.
OnQuoted ==
  /\ Started /\ pc \in {"scan", "panic"}
  /\ StartChar \in {"\"", "'"}
  /\ CloseAt(Tail(Rest), StartChar) > 0

\* The length of the literal the last iteration began on, delimiters included.
QuotedSpan == 1 + CloseAt(Tail(Rest), StartChar)

\* C11: a quoted literal ends at its first delimiter that no backslash
\* escapes, a backslash escaping exactly the character after it; its STRING
\* token stores the characters of that span in order, without the '\r', '\n'
\* and '\t' among them and with every other character kept.
C11_QuotedString ==
  OnQuoted =>
    /\ ~i.panicked
    /\ i.current = i.start + QuotedSpan
    /\ Emitted = <<Token("STRING", Kept(SubSeq(Rest, 1, QuotedSpan)),
                         i.start, i.start + QuotedSpan)>>
    /\ DiagsHere = <<>>

\* A literal with a stripped character and an escaped delimiter was scanned.
C11_Witness ==
  /\ OnQuoted /\ ~i.panicked
  /\ QuotedSpan = 5
  /\ SubSeq(Rest, 1, 5) = <<"\"", "\n", "\\", "\"", "\"">>
  /\ Len(Emitted) = 1

\* The last iteration began on a backtick that a later one closes.
OnRaw ==
  /\ Started /\ pc \in {"scan", "panic"}
  /\ StartChar = BACKTICK
  /\ CloseAt(Tail(Rest), BACKTICK) > 0

\* The length of the raw string the last iteration began on, backticks
\* included, and what stands between the backticks.
RawSpan == 1 + CloseAt(Tail(Rest), BACKTICK)

RawContent == SubSeq(Rest, 2, RawSpan - 1)

\* ']', n '=' and ']' occur in text one after the other.
Occurs(text, n) ==
  \E k \in 1..Len(text) :
    /\ k + n + 1 <= Len(text)
    /\ text[k] = "]" /\ text[k + n + 1] = "]"
    /\ \A j \in 1..n : text[k + j] = "="

\* Level n can wrap text: its closing delimiter does not occur in text, and
\* it is not 0 when text ends with ']'.
Wraps(text, n) ==
  /\ ~Occurs(text, n)
  /\ text # <<>> /\ text[Len(text)] = "]" => n >= 1

\* The smallest level that can wrap text.
Level(text) ==
  CHOOSE n \in 0..(Len(text) + 1) : Wraps(text, n) /\ \A m \in 0..(n - 1) : ~Wraps(text, m)

\* The places of text that hold the backslash of an escaped backtick.
EscapeMarks(text) ==
  {k \in 1..Len(text) : text[k] = "\\" /\ k < Len(text) /\ text[k + 1] = BACKTICK}

\* text with every escaped backtick replaced by a backtick.
Unescaped(text) ==
  [j \in 1..(Len(text) - Cardinality(EscapeMarks(text))) |->
     text[CHOOSE k \in (1..Len(text)) \ EscapeMarks(text) :
            Cardinality({l \in (1..k) \ EscapeMarks(text) : TRUE}) = j]]

Equals(n) == [k \in 1..n |-> "="]

\* C12: a terminated raw string is emitted as one STRING token whose lexeme is
\* '[', n '=', '[', the content with every escaped backtick replaced by a
\* backtick, ']', n '=', ']', where n is the smallest level whose closing
\* delimiter does not occur in the content and that is at least 1 when the
\* content ends with ']'.
C12_RawStringLevel ==
  OnRaw =>
    /\ ~i.panicked
    /\ i.current = i.start + RawSpan
    /\ Emitted =
         <<Token("STRING",
                 <<"[">> \o Equals(Level(RawContent)) \o <<"[">>
                   \o Unescaped(RawContent)
                   \o <<"]">> \o Equals(Level(RawContent)) \o <<"]">>,
                 i.start, i.start + RawSpan)>>
    /\ DiagsHere = <<>>

\* A raw string that ends with ']' and holds the closing delimiter of level 1
\* and an escaped backtick was scanned.
C12_Witness ==
  /\ OnRaw /\ ~i.panicked
  /\ RawContent = <<"\\", BACKTICK, "]", "=", "]">>
  /\ Len(Emitted) = 1
  /\ Level(RawContent) = 2

\* The last iteration scanned the raw string of content a]=]b.
OnExample ==
  /\ OnRaw /\ ~i.panicked
  /\ RawContent = ExampleContent

\* C13 as stated: the raw string of content a]=]b is emitted with level 2, as
\* the STRING lexeme [==[a]=]b]==].
C13_ExampleLevelTwo ==
  OnExample =>
    /\ Len(Emitted) = 1
    /\ Emitted[1].kind = "STRING"
    /\ Emitted[1].lexeme =
         <<"[", "=", "=", "[", "a", "]", "=", "]", "b", "]", "=", "=", "]">>

\* C13 amended: the raw string of content a]=]b is emitted with level 0, as
\* the STRING lexeme [[a]=]b]]: the content does not hold "]]" and does not
\* end with ']'.
C13_ExampleLevelZero ==
  OnExample =>
    /\ Len(Emitted) = 1
    /\ Emitted[1].kind = "STRING"
    /\ Emitted[1].lexeme = <<"[", "[", "a", "]", "=", "]", "b", "]", "]">>

\* The raw string of content a]=]b was scanned and its token appended.
C13_Witness == OnExample /\ Len(Emitted) = 1 /\ pc = "scan"

\* C14: in the token sequence of any scan, no token ends before the token that
\* precedes it, the tokens emitted after a rollback and the EOF token included.
C14_EndsNeverGoBack ==
  \A k \in 2..Len(i.tokens) : i.tokens[k - 1].end <= i.tokens[k].end

\* A finished scan in which an operator was emitted after a rollback and a
\* longer token followed it.
C14_Witness ==
  /\ pc = "done"
  /\ \E k \in 1..Len(i.tokens) :
       /\ i.tokens[k].kind \in {"DEFINE", "DOT", "COLON", "QUESTION_MARK"}
       /\ k + 1 < Len(i.tokens)
       /\ i.tokens[k + 1].end > i.tokens[k + 1].start + 1

\* C15: every token other than EOF has a span that is not empty: it starts
\* before it ends.
C15_SpansNotEmpty ==
  \A k \in 1..Len(i.tokens) :
    i.tokens[k].kind # "EOF" => i.tokens[k].start < i.tokens[k].end

\* A finished scan with an operator of one character, emitted after a
\* rollback, at the end of the source.
C15_Witness ==
  /\ pc = "done"
  /\ Len(i.tokens) >= 2
  /\ i.tokens[Len(i.tokens) - 1].kind \in {"DEFINE", "DOT", "COLON", "QUESTION_MARK"}
  /\ i.tokens[Len(i.tokens) - 1].end = i.tokens[Len(i.tokens) - 1].start + 1

\* The kinds of a token sequence, in order.
Kinds(tokens) == [k \in 1..Len(tokens) |-> tokens[k].kind]

\* The whitespace characters of the source from place from + 1 to place to.
WhitespaceIn(from, to) == SelectSeq(SubSeq(Src, from + 1, to), IsWhitespace)

\* The lexemes of the tokens from the k-th on, EOF aside, each after the
\* whitespace the source holds between it and the token before it, and the
\* whitespace at the end of the source.
RECURSIVE Rebuilt(_, _)
Rebuilt(k, from) ==
  IF k > Len(i.tokens) \/ i.tokens[k].kind = "EOF" THEN WhitespaceIn(from, Len(Src))
  ELSE WhitespaceIn(from, i.tokens[k].start) \o i.tokens[k].lexeme
         \o Rebuilt(k + 1, i.tokens[k].end)

\* C16: when a scan succeeds, scanning the lexemes of its tokens, EOF aside,
\* put together in order with the whitespace of the source between them, does
\* not stop early and builds tokens of the same kinds in the same order.
C16_RoundTrip ==
  pc = "done" /\ result.state = "Ok" =>
    /\ ~ScanCode(Rebuilt(1, 0), i.code.report).panicked
    /\ Kinds(ScanCode(Rebuilt(1, 0), i.code.report).tokens) = Kinds(i.tokens)

\* The pairs of a plain kind and its safe variant.
SafePairs ==
  { <<"ROUND_BRACKET_OPEN", "SAFE_CALL">>, <<"SQUARE_BRACKET_OPEN", "SAFE_SQUARE_BRACKET">>,
    <<"DOT", "SAFE_DOT">>, <<"DOUBLE_COLON", "SAFE_DOUBLE_COLON">> }

\* C17: for each of the four pairs the numeric tag of the safe variant is the
\* numeric tag of the plain kind plus 6, and so it is for the kind of every
\* token a scan emits with a safe variant.
C17_SafeTagOffset ==
  \A pair \in SafePairs :
    /\ Tag(pair[2]) = Tag(pair[1]) + 6
    /\ \A k \in 1..Len(i.tokens) :
         i.tokens[k].kind = pair[2] => Tag(i.tokens[k].kind) - 6 = Tag(pair[1])

\* A scan emitted a safe variant and then its plain kind, six tags apart.
C17_Witness ==
  \E k \in 1..(Len(i.tokens) - 1) :
    /\ <<i.tokens[k + 1].kind, i.tokens[k].kind>> \in SafePairs
    /\ Tag(i.tokens[k].kind) = Tag(i.tokens[k + 1].kind) + 6

\* C18: no scan reads the lookahead buffer past the characters pulled into it:
\* every peek, look_back and slice addresses characters the buffer holds, also
\* after the cursor moved without a pull.
C18_BufferReadsInRange == ~i.panicked

\* The tokens of the scan other than EOF.
Appended == SelectSeq(i.tokens, LAMBDA t : t.kind # "EOF")

\* C19: after every append other than EOF the remembered kind is the kind of
\* the token appended, so that a native keyword whose preceding token is not a
\* member-access operator, a STRING for one, keeps its keyword kind.
C19_LastIsPreviousKind ==
  /\ pc \in {"scan", "done"} /\ Appended # <<>>
       => i.last = Appended[Len(Appended)].kind
  /\ \A k \in 1..Len(i.tokens) :
       NotAfterMemberAccess(k, {"Just"})
         => i.tokens[k].kind = KEYWORDS[i.tokens[k].lexeme].kind

\* An iteration began on 0x or 0b, no integer suffix follows the digits, and
\* the iteration came to its end.
OnPrefixedMode ==
  /\ Started /\ pc = "scan" /\ ~i.panicked
  /\ NumberMode(Rest) \in {"hex", "bin"}
  /\ Follower(Rest, PrefixedSpan(Rest)) \notin {"L", "U"}

\* C20: in hexadecimal or binary mode the NUMBER token holds the prefix and
\* the digits of the mode's class and nothing more, whatever follows them, a
\* '.' with a digit included; when no digit follows the prefix a "Malformed
\* number" diagnostic is recorded.
C20_NoFractionInPrefixedMode ==
  OnPrefixedMode =>
    /\ Emitted = <<Token("NUMBER", SubSeq(Rest, 1, PrefixedSpan(Rest)),
                         i.start, i.start + PrefixedSpan(Rest))>>
    /\ i.current = i.start + PrefixedSpan(Rest)
    /\ PrefixedSpan(Rest) = 2
         => \E k \in 1..Len(DiagsHere) : DiagsHere[k].message = "Malformed number"

\* The length of the mantissa text begins with: a decimal numeral, or a prefix
\* with its digits.
MantissaSpan(text) ==
  IF NumberMode(text) = "dec" THEN DecimalSpan(text) ELSE PrefixedSpan(text)

\* What follows the mantissa the last iteration began on.
AfterMantissa == Drop(Rest, MantissaSpan(Rest))

\* An iteration began on a mantissa with at least one digit.
OnMantissa ==
  /\ Started /\ pc \in {"scan", "panic"}
  /\ IsAsciiDigit(StartChar)
  /\ NumberMode(Rest) # "dec" => PrefixedSpan(Rest) > 2

\* The NUMBER token of the first n characters the last iteration began on.
NumberOf(n) == Token("NUMBER", SubSeq(Rest, 1, n), i.start, i.start + n)

\* C21: after a mantissa, LL and ULL are taken into the lexeme of the NUMBER
\* token with no diagnostic; UL with no third L records a "Malformed number"
\* diagnostic and the NUMBER token, still emitted, holds the UL in its lexeme.
C21_IntegerSuffix ==
  OnMantissa =>
    /\ IsPrefix(<<"L", "L">>, AfterMantissa)
         => /\ ~i.panicked
            /\ Emitted = <<NumberOf(MantissaSpan(Rest) + 2)>>
            /\ DiagsHere = <<>>
    /\ IsPrefix(<<"U", "L", "L">>, AfterMantissa)
         => /\ ~i.panicked
            /\ Emitted = <<NumberOf(MantissaSpan(Rest) + 3)>>
            /\ DiagsHere = <<>>
    /\ IsPrefix(<<"U", "L">>, AfterMantissa) /\ ~IsPrefix(<<"U", "L", "L">>, AfterMantissa)
         => /\ ~i.panicked
            /\ Emitted = <<NumberOf(MantissaSpan(Rest) + 2)>>
            /\ Len(DiagsHere) = 1
            /\ DiagsHere[1].message = "Malformed number"

\* C22: once the scan has begun, ended() is true exactly when every character
\* of the source has been consumed, and as long as characters remain the
\* remaining length, size - current, is the number of characters not yet
\* consumed, whatever the number of storage units of the characters.
C22_EndedInCharacters ==
  Started /\ ~i.panicked =>
    /\ Ended(i) <=> i.current >= Len(Src)
    /\ i.current <= Len(Src) => i.size - i.current = Len(Src) - i.current

\* C23: every appended token whose kind is neither STRING nor EOF has as its
\* lexeme exactly the source characters from its start index up to, but not
\* including, its end index, also after an operator rollback or a number
\* diagnostic.
C23_LexemeIsSourceSpan ==
  \A k \in 1..Len(i.tokens) :
    i.tokens[k].kind \notin {"STRING", "EOF"} =>
      /\ i.tokens[k].start < i.tokens[k].end
      /\ i.tokens[k].end <= Len(Src)
      /\ i.tokens[k].lexeme = SubSeq(Src, i.tokens[k].start + 1, i.tokens[k].end)

\* An operator emitted after a rollback is followed by a number that got a
\* diagnostic.
C23_Witness ==
  \E k \in 1..Len(i.tokens) :
    /\ k > 1
    /\ i.tokens[k - 1].kind = "DEFINE"
    /\ i.tokens[k - 1].lexeme = <<"=">>
    /\ i.tokens[k].kind = "NUMBER"
    /\ i.tokens[k].start = i.tokens[k - 1].end
    /\ \E d \in 1..Len(i.diags) :
         /\ i.diags[d].message = "Malformed number"
         /\ i.diags[d].start = i.tokens[k].start

\* The number of "=" between the two opening brackets of a long-bracket literal.
RECURSIVE OpeningLevel(_)
OpeningLevel(text) ==
  IF Len(text) > 0 /\ Head(text) = "=" THEN 1 + OpeningLevel(Tail(text)) ELSE 0

\* The index of the first occurrence of pat in text, 0 when there is none.
FirstOccurrence(pat, text) ==
  IF Contains(text, pat)
    THEN CHOOSE k \in 1..Len(text) :
           /\ IsPrefix(pat, Drop(text, k - 1))
           /\ \A j \in 1..(k - 1) : ~IsPrefix(pat, Drop(text, j - 1))
    ELSE 0

LiteralLevel(lexeme) == OpeningLevel(Tail(lexeme))
LiteralBody(lexeme) == Drop(lexeme, LiteralLevel(lexeme) + 2)

\* C24: every literal emitted for a raw string is collision-free: in the text
\* after its opening bracket the first occurrence of the closing bracket of
\* its level is the one at the very end of the literal.
C24_RawLiteralCollisionFree ==
  OnRaw /\ ~i.panicked /\ Len(Emitted) = 1 /\ Emitted[1].kind = "STRING" =>
    FirstOccurrence(<<"]">> \o Brackets(LiteralLevel(Emitted[1].lexeme)) \o <<"]">>,
                    LiteralBody(Emitted[1].lexeme))
      = Len(LiteralBody(Emitted[1].lexeme)) - LiteralLevel(Emitted[1].lexeme) - 1
====
